---- MODULE Spec2Model ----
(***************************************************************************)
(* Deploy Runner Invoker (modules/deploy-runner-invoker/lambda/invoker.py) *)
(*                                                                         *)
(* Python values are records [t, s]: t is the Python type of the value     *)
(* ("str", "null" for None, "list") or "absent" for a key that the event   *)
(* does not hold; s is the text of a string, as a sequence of tokens, or   *)
(* the items of a list.  f-strings are concatenations of token sequences.  *)
(***************************************************************************)
EXTENDS Integers, Sequences, FiniteSets, TLC

\* ------------------------------------------------------------------ bounds
MaxInvocations == 2
MaxTasks == 2

\* ------------------------------------------------------------------ values
Str(tokens) == [t |-> "str", s |-> tokens]
Lit(token) == [t |-> "str", s |-> <<token>>]
None == [t |-> "null", s |-> <<>>]
List(items) == [t |-> "list", s |-> items]
Absent == [t |-> "absent", s |-> <<>>]

Fields ==
    {"task_type", "app_name", "git_ref", "ecr_repository", "dockerfile",
     "operation", "working_dir", "environment", "ecs_cluster", "ecs_service",
     "triggered_by"}

\* repr() of a list of strings: ['a', 'b']
RECURSIVE ReprItems(_)
ReprItems(items) ==
    IF items = <<>> THEN <<>>
    ELSE IF Len(items) = 1 THEN <<"'", items[1], "'">>
    ELSE <<"'", items[1], "'", ", ">> \o ReprItems(Tail(items))

ReprList(items) == <<"[">> \o ReprItems(items) \o <<"]">>

\* str(v), as an f-string placeholder formats v
Format(v) ==
    IF v.t = "str" THEN v.s
    ELSE IF v.t = "null" THEN <<"None">>
    ELSE ReprList(v.s)

\* bool(v)
Truthy(v) == v.t \in {"str", "list"} /\ v.s # <<>>

\* hash(v) raises TypeError for a list
Hashable(v) == v.t # "list"

\* k in event
Has(event, k) == event[k] # Absent

\* event.get(k, default)
Get(event, k, default) == IF Has(event, k) THEN event[k] ELSE default

\* v in l, for a list l of one-token strings
InList(v, l) == v.t = "str" /\ \E i \in 1..Len(l) : <<l[i]>> = v.s

\* ------------------------------------------------------------------ policy
CLUSTER_ARN == <<"arn:aws:ecs:cluster", "/", "deploy-runner">>

TASK_DEFINITIONS == <<"docker_builder", "terraform_runner", "app_deployer">>

ALLOWED_APPS == <<"cineos", "photographos", "createos", "lightwave-backend">>

ALLOWED_OPERATIONS == <<"build", "deploy", "plan", "apply">>

\* ------------------------------------------------------------------ validate_request
Returned(ok, msg) == [raised |-> FALSE, is_valid |-> ok, error_message |-> msg]
Raised(msg) == [raised |-> TRUE, is_valid |-> FALSE, error_message |-> msg]

MissingField(field) == <<"Missing required field: ", field>>

InvalidTaskType(task_type) ==
    <<"Invalid task_type: ">> \o Format(task_type)
        \o <<". Must be one of: ">> \o ReprList(TASK_DEFINITIONS)

AppNotAllowed(app_name) ==
    <<"App not allowed: ">> \o Format(app_name)
        \o <<". Allowed apps: ">> \o ReprList(ALLOWED_APPS)

OperationNotAllowed(operation) ==
    <<"Operation not allowed: ">> \o Format(operation)
        \o <<". Allowed: ">> \o ReprList(ALLOWED_OPERATIONS)

Unhashable(v) == <<"unhashable type: ", "'list'">>

\* validate_request without its required-fields loop
validate_request_no_required(event) ==
    LET task_type == Get(event, "task_type", None)
        app_name == Get(event, "app_name", None)
        operation == Get(event, "operation", None)
    IN  IF ~Hashable(task_type)
          THEN Raised(Unhashable(task_type))
        ELSE IF ~InList(task_type, TASK_DEFINITIONS)
          THEN Returned(FALSE, InvalidTaskType(task_type))
        ELSE IF Truthy(app_name) /\ ~InList(app_name, ALLOWED_APPS)
          THEN Returned(FALSE, AppNotAllowed(app_name))
        ELSE IF Truthy(operation) /\ ~InList(operation, ALLOWED_OPERATIONS)
          THEN Returned(FALSE, OperationNotAllowed(operation))
        ELSE Returned(TRUE, <<>>)

validate_request(event) ==
    LET task_type == Get(event, "task_type", None)
        app_name == Get(event, "app_name", None)
        operation == Get(event, "operation", None)
    IN  IF ~Has(event, "task_type")
          THEN Returned(FALSE, MissingField("task_type"))
        ELSE IF ~Hashable(task_type)
          THEN Raised(Unhashable(task_type))
        ELSE IF ~InList(task_type, TASK_DEFINITIONS)
          THEN Returned(FALSE, InvalidTaskType(task_type))
        ELSE IF Truthy(app_name) /\ ~InList(app_name, ALLOWED_APPS)
          THEN Returned(FALSE, AppNotAllowed(app_name))
        ELSE IF Truthy(operation) /\ ~InList(operation, ALLOWED_OPERATIONS)
          THEN Returned(FALSE, OperationNotAllowed(operation))
        ELSE Returned(TRUE, <<>>)

\* ------------------------------------------------------------------ build_container_overrides
ContextRef(app_name, git_ref) ==
    <<"git://github.com/lightwave-media/">> \o Format(app_name)
        \o <<".git#">> \o Format(git_ref)

\* a destination without the ":" between repository and tag
TaggedNoColon(ecr_repo, tag) == Format(ecr_repo) \o tag

Tagged(ecr_repo, tag) == Format(ecr_repo) \o <<":">> \o tag

\* the command with working directory and operation swapped
TerragruntCommandSwapped(working_dir, operation) ==
    <<"cd ">> \o Format(operation) \o <<" && terragrunt ">>
        \o Format(working_dir) \o <<" --terragrunt-non-interactive">>

TerragruntCommand(working_dir, operation) ==
    <<"cd ">> \o Format(working_dir) \o <<" && terragrunt ">>
        \o Format(operation) \o <<" --terragrunt-non-interactive">>

\* the deployer's environment with the cluster and service values crossed
DeployerEnvironmentCrossed(event) ==
    << [name |-> "APP_NAME", value |-> Get(event, "app_name", Str(<<>>))],
       [name |-> "GIT_REF", value |-> Get(event, "git_ref", Lit("main"))],
       [name |-> "ENVIRONMENT", value |-> Get(event, "environment", Lit("prod"))],
       [name |-> "ECR_REPOSITORY", value |-> Get(event, "ecr_repository", Str(<<>>))],
       [name |-> "ECS_CLUSTER", value |-> Get(event, "ecs_service", Str(<<>>))],
       [name |-> "ECS_SERVICE", value |-> Get(event, "ecs_cluster", Str(<<>>))] >>

DeployerEnvironment(event) ==
    LET app_name == Get(event, "app_name", Str(<<>>))
        git_ref == Get(event, "git_ref", Lit("main"))
        environment == Get(event, "environment", Lit("prod"))
        ecr_repo == Get(event, "ecr_repository", Str(<<>>))
        ecs_cluster == Get(event, "ecs_cluster", Str(<<>>))
        ecs_service == Get(event, "ecs_service", Str(<<>>))
    IN  << [name |-> "APP_NAME", value |-> app_name],
           [name |-> "GIT_REF", value |-> git_ref],
           [name |-> "ENVIRONMENT", value |-> environment],
           [name |-> "ECR_REPOSITORY", value |-> ecr_repo],
           [name |-> "ECS_CLUSTER", value |-> ecs_cluster],
           [name |-> "ECS_SERVICE", value |-> ecs_service] >>

build_container_overrides(event) ==
    LET task_type == Get(event, "task_type", None)
    IN  IF task_type = Lit("docker_builder") THEN
            LET app_name == Get(event, "app_name", Str(<<>>))
                git_ref == Get(event, "git_ref", Lit("main"))
                ecr_repo == Get(event, "ecr_repository", Str(<<>>))
                dockerfile == Get(event, "dockerfile", Lit("Dockerfile"))
                command ==
                    << Lit("--context"), Str(ContextRef(app_name, git_ref)),
                       Lit("--dockerfile"), dockerfile,
                       Lit("--destination"), Str(Tagged(ecr_repo, Format(git_ref))),
                       Lit("--destination"), Str(Tagged(ecr_repo, <<"latest">>)),
                       Lit("--cache=true") >>
            IN  << [name |-> "kaniko", command |-> command] >>
        ELSE IF task_type = Lit("terraform_runner") THEN
            LET operation == Get(event, "operation", Lit("plan"))
                working_dir == Get(event, "working_dir", Lit("."))
                command == TerragruntCommand(working_dir, operation)
            IN  << [name |-> "terraform", command |-> << Str(command) >>] >>
        ELSE IF task_type = Lit("app_deployer") THEN
            LET env_vars == DeployerEnvironment(event)
            IN  << [name |-> "deployer", environment |-> env_vars] >>
        ELSE <<>>

\* ------------------------------------------------------------------ backend (ecs_client.run_task)
\* What the backend answers to one run_task call: it raises, or it returns a
\* response that may hold "tasks" and "failures".  started is the number of
\* tasks the backend has started so far; every task it starts gets a new
\* identifier, the last segment of its ARN.
TaskId(n) == "task-" \o ToString(n)

ArnShapes == {"absent", "bare", "path"}

TaskArn(shape, n) ==
    IF shape = "absent" THEN Absent
    ELSE IF shape = "bare" THEN Str(<<TaskId(n)>>)
    ELSE Str(<<"arn:aws:ecs:task", "/", "deploy-runner", "/", TaskId(n)>>)

FirstTasks(started) ==
    { [taskArn |-> TaskArn(shape, started + 1), lastStatus |-> Lit("PROVISIONING")] :
        shape \in ArnShapes }
    \cup { [taskArn |-> TaskArn("path", started + 1), lastStatus |-> Absent] }

MoreTasks(started, k) ==
    [i \in 1..(k - 1) |->
        [taskArn |-> TaskArn("path", started + 1 + i), lastStatus |-> Lit("RUNNING")]]

Reply(raised, exc, has_tasks, tasks, failures) ==
    [raised |-> raised, exc |-> exc, has_tasks |-> has_tasks, tasks |-> tasks,
     failures |-> failures]

NoReply == Reply(FALSE, <<>>, FALSE, <<>>, Absent)

BackendReplies(started) ==
    { Reply(TRUE, <<"AccessDeniedException">>, FALSE, <<>>, Absent) }
    \cup { Reply(FALSE, <<>>, FALSE, <<>>, List(<<"RESOURCE:MEMORY">>)) }
    \cup { Reply(FALSE, <<>>, TRUE, <<>>, f) :
             f \in {Absent, List(<<>>), List(<<"RESOURCE:MEMORY">>)} }
    \cup { Reply(FALSE, <<>>, TRUE, <<first>>, List(<<>>)) : first \in FirstTasks(started) }
    \cup { Reply(FALSE, <<>>, TRUE,
                 << [taskArn |-> TaskArn("path", started + 1), lastStatus |-> Absent] >>
                     \o MoreTasks(started, k),
                 List(<<>>)) : k \in 2..MaxTasks }

\* ------------------------------------------------------------------ start_ecs_task
TaskDefinitionArn(task_type) == <<"arn:aws:ecs:task-definition", "/">> \o Format(task_type)

RunTaskRequest(event) ==
    LET task_type == Get(event, "task_type", None)
    IN  [cluster |-> CLUSTER_ARN,
         taskDefinition |-> TaskDefinitionArn(task_type),
         launchType |-> "FARGATE",
         assignPublicIp |-> "DISABLED",
         containerOverrides |-> build_container_overrides(event),
         tags |-> << [key |-> "TaskType", value |-> task_type],
                     [key |-> "AppName", value |-> Get(event, "app_name", Lit("n/a"))],
                     [key |-> "GitRef", value |-> Get(event, "git_ref", Lit("n/a"))],
                     [key |-> "TriggeredBy", value |-> Get(event, "triggered_by", Lit("lambda"))] >>]

\* task_arn.split("/")[-1]
RECURSIVE SplitLast(_)
SplitLast(tokens) ==
    IF tokens = <<>> THEN <<>>
    ELSE IF tokens[Len(tokens)] = "/" THEN <<>>
    ELSE SplitLast(SubSeq(tokens, 1, Len(tokens) - 1)) \o <<tokens[Len(tokens)]>>

TaskIdOf(task_arn) == IF Truthy(task_arn) THEN Str(SplitLast(task_arn.s)) ELSE Str(<<>>)

NoResult == [task_arn |-> Str(<<>>), task_id |-> Str(<<>>), cluster_arn |-> <<>>, status |-> None]

\* start_ecs_task that submits again when the backend started nothing
start_ecs_task_retry(event, reply) ==
    LET once == << RunTaskRequest(event) >>
        tasks == IF reply.has_tasks THEN reply.tasks ELSE <<>>
        failures == IF reply.failures = Absent THEN List(<<>>) ELSE reply.failures
        task == tasks[1]
        task_arn == IF task.taskArn = Absent THEN Str(<<>>) ELSE task.taskArn
        status == IF task.lastStatus = Absent THEN Lit("PENDING") ELSE task.lastStatus
    IN  IF reply.raised
          THEN [raised |-> TRUE, exc |-> reply.exc, result |-> NoResult, sent |-> once]
        ELSE IF tasks = <<>>
          THEN [raised |-> TRUE,
                exc |-> <<"Failed to start ECS task: ">> \o Format(failures),
                result |-> NoResult, sent |-> once \o once]
        ELSE [raised |-> FALSE, exc |-> <<>>,
              result |-> [task_arn |-> task_arn, task_id |-> TaskIdOf(task_arn),
                          cluster_arn |-> CLUSTER_ARN, status |-> status],
              sent |-> once]

\* start_ecs_task that reports the failure without the backend's failures
start_ecs_task_no_failures(event, reply) ==
    LET sent == << RunTaskRequest(event) >>
        tasks == IF reply.has_tasks THEN reply.tasks ELSE <<>>
        task == tasks[1]
        task_arn == IF task.taskArn = Absent THEN Str(<<>>) ELSE task.taskArn
        status == IF task.lastStatus = Absent THEN Lit("PENDING") ELSE task.lastStatus
    IN  IF reply.raised
          THEN [raised |-> TRUE, exc |-> reply.exc, result |-> NoResult, sent |-> sent]
        ELSE IF tasks = <<>>
          THEN [raised |-> TRUE, exc |-> <<"Failed to start ECS task">>,
                result |-> NoResult, sent |-> sent]
        ELSE [raised |-> FALSE, exc |-> <<>>,
              result |-> [task_arn |-> task_arn, task_id |-> TaskIdOf(task_arn),
                          cluster_arn |-> CLUSTER_ARN, status |-> status],
              sent |-> sent]

\* start_ecs_task that reads the last returned task instead of the first
start_ecs_task_last_task(event, reply) ==
    LET sent == << RunTaskRequest(event) >>
        tasks == IF reply.has_tasks THEN reply.tasks ELSE <<>>
        failures == IF reply.failures = Absent THEN List(<<>>) ELSE reply.failures
        task == tasks[Len(tasks)]
        task_arn == IF task.taskArn = Absent THEN Str(<<>>) ELSE task.taskArn
        status == IF task.lastStatus = Absent THEN Lit("PENDING") ELSE task.lastStatus
    IN  IF reply.raised
          THEN [raised |-> TRUE, exc |-> reply.exc, result |-> NoResult, sent |-> sent]
        ELSE IF tasks = <<>>
          THEN [raised |-> TRUE,
                exc |-> <<"Failed to start ECS task: ">> \o Format(failures),
                result |-> NoResult, sent |-> sent]
        ELSE [raised |-> FALSE, exc |-> <<>>,
              result |-> [task_arn |-> task_arn, task_id |-> TaskIdOf(task_arn),
                          cluster_arn |-> CLUSTER_ARN, status |-> status],
              sent |-> sent]

\* sent holds the run_task requests issued, in order; reply is the backend's
\* answer to the one request
start_ecs_task(event, reply) ==
    LET sent == << RunTaskRequest(event) >>
        tasks == IF reply.has_tasks THEN reply.tasks ELSE <<>>
        failures == IF reply.failures = Absent THEN List(<<>>) ELSE reply.failures
        task == tasks[1]
        task_arn == IF task.taskArn = Absent THEN Str(<<>>) ELSE task.taskArn
        status == IF task.lastStatus = Absent THEN Lit("PENDING") ELSE task.lastStatus
    IN  IF reply.raised
          THEN [raised |-> TRUE, exc |-> reply.exc, result |-> NoResult, sent |-> sent]
        ELSE IF tasks = <<>>
          THEN [raised |-> TRUE,
                exc |-> <<"Failed to start ECS task: ">> \o Format(failures),
                result |-> NoResult, sent |-> sent]
        ELSE [raised |-> FALSE, exc |-> <<>>,
              result |-> [task_arn |-> task_arn, task_id |-> TaskIdOf(task_arn),
                          cluster_arn |-> CLUSTER_ARN, status |-> status],
              sent |-> sent]

\* ------------------------------------------------------------------ handler
ErrorResponse(code, msg) ==
    [statusCode |-> code, body |-> [success |-> FALSE, error |-> msg]]

SuccessResponse(result) ==
    [statusCode |-> 200,
     body |-> [success |-> TRUE,
               task_arn |-> result.task_arn,
               task_id |-> result.task_id,
               cluster_arn |-> result.cluster_arn,
               status |-> result.status,
               message |-> <<"ECS task started: ">> \o Format(result.task_id)]]

\* An exception that leaves the handler, instead of a response
Propagated(msg) == [statusCode |-> 0, body |-> [success |-> FALSE, error |-> msg]]

\* validation is what validate_request gave; sent the run_task requests issued
Outcome(response, validation, sent) ==
    [response |-> response, validation |-> validation, sent |-> sent]

\* handler without its except clause
handler_no_except(event, reply) ==
    LET v == validate_request(event)
        started == start_ecs_task(event, reply)
    IN  IF v.raised THEN Outcome(Propagated(v.error_message), v, <<>>)
        ELSE IF ~v.is_valid THEN Outcome(ErrorResponse(400, v.error_message), v, <<>>)
        ELSE IF started.raised
          THEN Outcome(Propagated(started.exc), v, started.sent)
        ELSE Outcome(SuccessResponse(started.result), v, started.sent)

handler(event, reply) ==
    LET v == validate_request(event)
        started == start_ecs_task(event, reply)
    IN  IF v.raised THEN Outcome(ErrorResponse(500, v.error_message), v, <<>>)
        ELSE IF ~v.is_valid THEN Outcome(ErrorResponse(400, v.error_message), v, <<>>)
        ELSE IF started.raised
          THEN Outcome(ErrorResponse(500, started.exc), v, started.sent)
        ELSE Outcome(SuccessResponse(started.result), v, started.sent)

\* ------------------------------------------------------------------ requests
NoFields == [k \in Fields |-> Absent]

Request(task_type, app_name, operation, rest) ==
    [k \in Fields |->
        IF k = "task_type" THEN task_type
        ELSE IF k = "app_name" THEN app_name
        ELSE IF k = "operation" THEN operation
        ELSE rest[k]]

Rest(git_ref, ecr_repository, dockerfile, working_dir, environment, ecs_cluster, ecs_service) ==
    [k \in Fields |->
        IF k = "git_ref" THEN git_ref
        ELSE IF k = "ecr_repository" THEN ecr_repository
        ELSE IF k = "dockerfile" THEN dockerfile
        ELSE IF k = "working_dir" THEN working_dir
        ELSE IF k = "environment" THEN environment
        ELSE IF k = "ecs_cluster" THEN ecs_cluster
        ELSE IF k = "ecs_service" THEN ecs_service
        ELSE Absent]

Kinds == { Lit(TASK_DEFINITIONS[i]) : i \in 1..Len(TASK_DEFINITIONS) }

\* requests given to validate_request
ValidateEvents ==
    { Request(tt, app, op, NoFields) :
        tt \in Kinds \cup {Absent, None, Str(<<>>), Lit("bogus"), List(<<"docker_builder">>)},
        app \in {Absent, None, Str(<<>>), Lit("cineos"), Lit("lightwave-backend"),
                 Lit("foo"), List(<<"cineos">>)},
        op \in {Absent, None, Str(<<>>), Lit("apply"), Lit("build"), Lit("destroy")} }

\* requests given to build_container_overrides
BuildEvents ==
    { Request(tt, app, op, Rest(ref, repo, df, wd, env, cl, sv)) :
        tt \in Kinds \cup {Absent, Lit("bogus")},
        app \in {Absent, Str(<<>>), Lit("foo")},
        op \in {Absent, Str(<<>>), Lit("apply")},
        ref \in {Absent, None, Lit("v1.2")},
        repo \in {Absent, Str(<<>>), Str(<<"123.dkr", "/", "foo">>)},
        df \in {Absent, Str(<<"docker", "/", "Dockerfile.prod">>)},
        wd \in {Absent, Str(<<"infra", "/", "prod">>)},
        env \in {Absent, Lit("staging")},
        cl \in {Absent, Lit("cluster-a")},
        sv \in {Absent, Lit("service-a")} }

\* requests given to handler
HandlerEvents ==
    { Request(tt, app, op, NoFields) :
        tt \in Kinds \cup {Absent, Lit("bogus"), List(<<"docker_builder">>)},
        app \in {Absent, Str(<<>>), Lit("cineos"), Lit("foo")},
        op \in {Absent, Lit("apply"), Lit("destroy")} }

\* ------------------------------------------------------------------ state
VARIABLES
    event,        \* the request a function is called with
    pc,           \* "call": the function is about to run; "return": it has returned
    vresult,      \* what validate_request returned
    overrides,    \* what build_container_overrides returned
    last,         \* the latest handler invocation, <<>> before the first
    nInvocations, \* handler invocations so far
    nPassed,      \* invocations whose request passed validation
    runTaskCalls, \* run_task requests the backend has received
    started       \* tasks the backend has started

vars == <<event, pc, vresult, overrides, last, nInvocations, nPassed, runTaskCalls, started>>

NotCalled == Raised(<<>>)

Idle ==
    /\ last = <<>>
    /\ nInvocations = 0
    /\ nPassed = 0
    /\ runTaskCalls = 0
    /\ started = 0

\* ---- validate_request on every request
InitValidate ==
    /\ event \in ValidateEvents
    /\ pc = "call"
    /\ vresult = NotCalled
    /\ overrides = <<>>
    /\ Idle

Validate ==
    /\ pc = "call"
    /\ vresult' = validate_request(event)
    /\ pc' = "return"
    /\ UNCHANGED <<event, overrides, last, nInvocations, nPassed, runTaskCalls, started>>

SpecValidate == InitValidate /\ [][Validate]_vars

\* ---- build_container_overrides on every request
InitBuild ==
    /\ event \in BuildEvents
    /\ pc = "call"
    /\ vresult = NotCalled
    /\ overrides = <<>>
    /\ Idle

Build ==
    /\ pc = "call"
    /\ overrides' = build_container_overrides(event)
    /\ pc' = "return"
    /\ UNCHANGED <<event, vresult, last, nInvocations, nPassed, runTaskCalls, started>>

SpecBuild == InitBuild /\ [][Build]_vars

\* ---- a sequence of handler invocations against the backend
Init ==
    /\ event = NoFields
    /\ pc = "call"
    /\ vresult = NotCalled
    /\ overrides = <<>>
    /\ Idle

Passed(v) == ~v.raised /\ v.is_valid

\* what the previous invocation was, as far as the next one is compared with it
Previous(ev) ==
    IF last = <<>> THEN <<>>
    ELSE << [same |-> last[1].event = ev,
             statusCode |-> last[1].response.statusCode,
             task_id |-> IF last[1].response.statusCode = 200
                           THEN last[1].response.body.task_id ELSE None,
             calls |-> Len(last[1].sent),
             ntasks |-> last[1].ntasks,
             has_arn |-> last[1].has_arn] >>

\* The handler issues its run_task requests before it reads any answer, so
\* whether it issues one does not depend on the answer.  The backend answers
\* the requests issued; no request, no answer.
Replies(ev) ==
    IF handler(ev, NoReply).sent = <<>> THEN {NoReply} ELSE BackendReplies(started)

Invoke(ev) ==
    /\ nInvocations < MaxInvocations
    /\ \E reply \in Replies(ev) :
        LET out == handler(ev, reply)
            calls == Len(out.sent)
            ntasks == IF reply.raised \/ ~reply.has_tasks THEN 0 ELSE Len(reply.tasks)
        IN  /\ last' = << [event |-> ev, reply |-> reply, response |-> out.response,
                           validation |-> out.validation, sent |-> out.sent,
                           ntasks |-> ntasks,
                           has_arn |-> ntasks > 0 /\ reply.tasks[1].taskArn # Absent,
                           previous |-> Previous(ev)] >>
            /\ nInvocations' = nInvocations + 1
            /\ nPassed' = nPassed + (IF Passed(validate_request(ev)) THEN 1 ELSE 0)
            /\ runTaskCalls' = runTaskCalls + calls
            /\ started' = started + calls * ntasks
    /\ event' = ev
    /\ UNCHANGED <<pc, vresult, overrides>>

Next == \E ev \in HandlerEvents : Invoke(ev)

Spec == Init /\ [][Next]_vars

\* ------------------------------------------------------------------ properties
KindNames == <<"[", "'", "docker_builder", "'", ", ", "'", "terraform_runner", "'", ", ",
               "'", "app_deployer", "'", "]">>

AppNames == <<"[", "'", "cineos", "'", ", ", "'", "photographos", "'", ", ",
              "'", "createos", "'", ", ", "'", "lightwave-backend", "'", "]">>

IsKnownKind(v) == v \in {Lit("docker_builder"), Lit("terraform_runner"), Lit("app_deployer")}

IsAllowedApp(v) ==
    v \in {Lit("cineos"), Lit("photographos"), Lit("createos"), Lit("lightwave-backend")}

SuccessFields == {"task_arn", "task_id", "cluster_arn", "status"}

\* part occurs in whole as a run of consecutive tokens
Contains(whole, part) ==
    \E i \in 0..(Len(whole) - Len(part)) : SubSeq(whole, i + 1, i + Len(part)) = part

\* id is the part of arn after its last "/" (all of arn when it has none)
IsTrailingSegment(id, arn) ==
    \E k \in 0..Len(arn) :
        /\ id = SubSeq(arn, k + 1, Len(arn))
        /\ \A i \in 1..Len(id) : id[i] # "/"
        /\ k = 0 \/ arn[k] = "/"

Invoked == last # <<>>

\* C1: an invocation whose request has no task_type ends with validation
\* failing with "Missing required field: task_type", a 400 response whose body
\* has success = false and that reason as error, and no run_task request.
C1_MissingTaskType ==
    (Invoked /\ ~Has(last[1].event, "task_type")) =>
        LET r == last[1] IN
        /\ ~r.validation.raised
        /\ ~r.validation.is_valid
        /\ r.validation.error_message = <<"Missing required field: ", "task_type">>
        /\ r.response.statusCode = 400
        /\ DOMAIN r.response.body = {"success", "error"}
        /\ r.response.body.success = FALSE
        /\ r.response.body.error = <<"Missing required field: ", "task_type">>
        /\ r.sent = <<>>
        /\ r.reply = NoReply

C1_Witness ==
    /\ Invoked
    /\ ~Has(last[1].event, "task_type")
    /\ last[1].event["app_name"] = Lit("cineos")
    /\ last[1].response.statusCode = 400
    /\ nInvocations = 2
    /\ runTaskCalls = 1

\* C2: validate_request answers every request whose task_type is present and
\* not a configured kind with the failure that names the value and lists the
\* valid kinds, whatever app_name and operation are.
C2_UnknownKind ==
    (pc = "return" /\ Has(event, "task_type") /\ ~IsKnownKind(event["task_type"])) =>
        /\ ~vresult.raised
        /\ ~vresult.is_valid
        /\ vresult.error_message =
              <<"Invalid task_type: ">> \o Format(event["task_type"])
                  \o <<". Must be one of: ">> \o KindNames

\* C3: validate_request answers every request of a known kind whose app_name
\* is supplied and not an allowed application (the empty string included)
\* with the app-not-allowed failure, and never gives that failure to a request
\* without app_name.
C3_AppAllowList ==
    pc = "return" =>
        /\ (/\ IsKnownKind(event["task_type"])
            /\ Has(event, "app_name")
            /\ ~IsAllowedApp(event["app_name"]))
           => /\ ~vresult.raised
              /\ ~vresult.is_valid
              /\ vresult.error_message =
                    <<"App not allowed: ">> \o Format(event["app_name"])
                        \o <<". Allowed apps: ">> \o AppNames
        /\ ~Has(event, "app_name")
           => (vresult.error_message = <<>> \/ vresult.error_message[1] # "App not allowed: ")

\* C4: every invocation whose request passes validation issues exactly one
\* run_task request and every other invocation issues none, so the backend
\* has received as many requests as invocations passed validation; when the
\* same request is submitted twice in a row and the backend starts tasks for
\* both, both responses are 200 and the task identifiers of the two started
\* tasks differ.
C4_OneSubmissionPerValidRequest ==
    /\ runTaskCalls = nPassed
    /\ Invoked =>
        LET r == last[1] IN
        /\ Len(r.sent) = (IF Passed(r.validation) THEN 1 ELSE 0)
        /\ (r.previous # <<>> /\ r.previous[1].same /\ Passed(r.validation)) =>
              /\ r.previous[1].calls = 1
              /\ Len(r.sent) = 1
              /\ runTaskCalls >= 2
              /\ (r.previous[1].ntasks > 0 /\ r.ntasks > 0) =>
                    /\ r.previous[1].statusCode = 200
                    /\ r.response.statusCode = 200
                    /\ (r.previous[1].has_arn /\ r.has_arn) =>
                          r.response.body.task_id # r.previous[1].task_id

C4_Witness ==
    /\ Invoked
    /\ last[1].previous # <<>>
    /\ last[1].previous[1].same
    /\ last[1].previous[1].statusCode = 200
    /\ last[1].previous[1].has_arn
    /\ last[1].response.statusCode = 200
    /\ last[1].has_arn
    /\ last[1].previous[1].calls = 1
    /\ Len(last[1].sent) = 1
    /\ runTaskCalls = 2

\* C5: when the request is valid and the backend's response holds no started
\* task, the response is a 500 whose body has success = false, an error that
\* contains the backend's failures list, and none of the success fields.
C5_ZeroTasks ==
    (Invoked /\ Passed(last[1].validation) /\ ~last[1].reply.raised /\ last[1].ntasks = 0) =>
        LET r == last[1]
            failures == IF r.reply.failures = Absent THEN <<>> ELSE r.reply.failures.s
        IN  /\ r.response.statusCode = 500
            /\ r.response.body.success = FALSE
            /\ Contains(r.response.body.error, ReprList(failures))
            /\ \A i \in 1..Len(failures) : Contains(r.response.body.error, <<failures[i]>>)
            /\ DOMAIN r.response.body \cap SuccessFields = {}

C5_Witness ==
    /\ Invoked
    /\ Passed(last[1].validation)
    /\ ~last[1].reply.raised
    /\ last[1].reply.has_tasks
    /\ last[1].reply.failures = List(<<"RESOURCE:MEMORY">>)
    /\ last[1].response.statusCode = 500

\* C6: every invocation ends with a response and no exception leaves the
\* handler: 400 exactly when validation returns a failure, 200 exactly when
\* validation passes and the backend returns at least one started task, 500
\* in every other case, with the message of the failure or exception as error.
C6_ThreeResponses ==
    Invoked =>
        LET r == last[1]
            rejected == ~r.validation.raised /\ ~r.validation.is_valid
            succeeded == Passed(r.validation) /\ ~r.reply.raised /\ r.ntasks > 0
        IN  /\ r.response.statusCode \in {200, 400, 500}
            /\ r.response.statusCode = 400 <=> rejected
            /\ r.response.statusCode = 200 <=> succeeded
            /\ r.response.statusCode = 500 <=> (~rejected /\ ~succeeded)
            /\ r.response.body.success = (r.response.statusCode = 200)
            /\ r.response.statusCode = 400 =>
                  r.response.body.error = r.validation.error_message
            /\ (r.response.statusCode = 500 /\ r.validation.raised) =>
                  r.response.body.error = <<"unhashable type: ", "'list'">>
            /\ (r.response.statusCode = 500 /\ r.reply.raised) =>
                  r.response.body.error = r.reply.exc
            /\ (r.response.statusCode = 500 /\ ~r.validation.raised /\ ~r.reply.raised) =>
                  r.response.body.error[1] = "Failed to start ECS task: "

C6_Witness ==
    /\ Invoked
    /\ Passed(last[1].validation)
    /\ last[1].reply.raised
    /\ last[1].response.statusCode = 500
    /\ last[1].response.body.error = <<"AccessDeniedException">>

\* C7: when the request is valid and the backend returns at least one started
\* task, the 200 body is built from the first task: task_arn is its taskArn,
\* task_id the part of that after the last "/", cluster_arn the configured
\* cluster and status its lastStatus, or "PENDING" when it has none.
C7_FirstTask ==
    (Invoked /\ Passed(last[1].validation) /\ ~last[1].reply.raised /\ last[1].ntasks > 0) =>
        LET r == last[1]
            first == r.reply.tasks[1]
            body == r.response.body
        IN  /\ r.response.statusCode = 200
            /\ body.success = TRUE
            /\ body.task_arn = (IF first.taskArn = Absent THEN Str(<<>>) ELSE first.taskArn)
            /\ body.task_id.t = "str"
            /\ IsTrailingSegment(body.task_id.s, body.task_arn.s)
            /\ body.cluster_arn = <<"arn:aws:ecs:cluster", "/", "deploy-runner">>
            /\ body.status =
                  (IF first.lastStatus = Absent THEN Lit("PENDING") ELSE first.lastStatus)

C7_Witness ==
    /\ Invoked
    /\ last[1].response.statusCode = 200
    /\ last[1].ntasks = 2
    /\ last[1].response.body.task_id = Lit("task-1")
    /\ last[1].response.body.task_arn.s[1] = "arn:aws:ecs:task"
    /\ last[1].response.body.status = Lit("PENDING")

\* the text of field k of the request, or dflt when the request has no k
TextOf(k, dflt) == IF event[k] = Absent THEN dflt ELSE Format(event[k])

\* the value of field k of the request, or the string dflt
ValueOf(k, dflt) == IF event[k] = Absent THEN Str(dflt) ELSE event[k]

EndsWith(whole, part) ==
    /\ Len(part) <= Len(whole)
    /\ SubSeq(whole, Len(whole) - Len(part) + 1, Len(whole)) = part

\* C8: for a docker_builder request build_container_overrides returns one
\* override, for container "kaniko", whose command is --context, a context
\* reference ending in "#<git_ref>", --dockerfile, <dockerfile>,
\* --destination, <ecr_repository>:<git_ref>, --destination,
\* <ecr_repository>:latest, --cache=true, with git_ref "main" and dockerfile
\* "Dockerfile" when the request omits them.
C8_ImageBuild ==
    (pc = "return" /\ event["task_type"] = Lit("docker_builder")) =>
        LET git_ref == TextOf("git_ref", <<"main">>)
            repo == TextOf("ecr_repository", <<>>)
        IN  /\ Len(overrides) = 1
            /\ DOMAIN overrides[1] = {"name", "command"}
            /\ overrides[1].name = "kaniko"
            /\ Len(overrides[1].command) = 9
            /\ overrides[1].command[1] = Lit("--context")
            /\ overrides[1].command[2].t = "str"
            /\ EndsWith(overrides[1].command[2].s, <<".git#">> \o git_ref)
            /\ Contains(overrides[1].command[2].s, TextOf("app_name", <<>>) \o <<".git#">>)
            /\ overrides[1].command[3] = Lit("--dockerfile")
            /\ overrides[1].command[4] = ValueOf("dockerfile", <<"Dockerfile">>)
            /\ overrides[1].command[5] = Lit("--destination")
            /\ overrides[1].command[6] = Str(repo \o <<":">> \o git_ref)
            /\ overrides[1].command[7] = Lit("--destination")
            /\ overrides[1].command[8] = Str(repo \o <<":", "latest">>)
            /\ overrides[1].command[9] = Lit("--cache=true")

C8_Witness ==
    /\ pc = "return"
    /\ event["task_type"] = Lit("docker_builder")
    /\ event["app_name"] = Lit("foo")
    /\ event["git_ref"] = Absent
    /\ event["dockerfile"] = Absent
    /\ event["ecr_repository"] = Str(<<"123.dkr", "/", "foo">>)
    /\ overrides[1].command[2] =
          Str(<<"git://github.com/lightwave-media/", "foo", ".git#", "main">>)
    /\ overrides[1].command[4] = Lit("Dockerfile")
    /\ overrides[1].command[6] = Str(<<"123.dkr", "/", "foo", ":", "main">>)
    /\ overrides[1].command[8] = Str(<<"123.dkr", "/", "foo", ":", "latest">>)

\* C9: for a terraform_runner request build_container_overrides returns one
\* override, for container "terraform", whose command is the one string
\* "cd <working_dir> && terragrunt <operation> --terragrunt-non-interactive",
\* with working_dir "." and operation "plan" when the request omits them.
C9_InfrastructureRunner ==
    (pc = "return" /\ event["task_type"] = Lit("terraform_runner")) =>
        /\ Len(overrides) = 1
        /\ DOMAIN overrides[1] = {"name", "command"}
        /\ overrides[1].name = "terraform"
        /\ Len(overrides[1].command) = 1
        /\ overrides[1].command[1] =
              Str(<<"cd ">> \o TextOf("working_dir", <<".">>) \o <<" && terragrunt ">>
                    \o TextOf("operation", <<"plan">>)
                    \o <<" --terragrunt-non-interactive">>)

C9_Witness ==
    /\ pc = "return"
    /\ event["task_type"] = Lit("terraform_runner")
    /\ event["operation"] = Lit("apply")
    /\ event["working_dir"] = Str(<<"infra", "/", "prod">>)
    /\ overrides =
          << [name |-> "terraform",
              command |-> << Str(<<"cd ", "infra", "/", "prod", " && terragrunt ", "apply",
                                   " --terragrunt-non-interactive">>) >>] >>

\* C10: for an app_deployer request build_container_overrides returns one
\* override, for container "deployer", with no command and an environment of
\* exactly APP_NAME, GIT_REF, ENVIRONMENT, ECR_REPOSITORY, ECS_CLUSTER and
\* ECS_SERVICE, each once and each with the value of its request field
\* (git_ref "main" and environment "prod" when omitted); the override of every
\* other kind has a command.
C10_BuildAndDeploy ==
    pc = "return" =>
        /\ event["task_type"] = Lit("app_deployer") =>
              LET env == overrides[1].environment IN
              /\ Len(overrides) = 1
              /\ DOMAIN overrides[1] = {"name", "environment"}
              /\ overrides[1].name = "deployer"
              /\ Len(env) = 6
              /\ \A i, j \in 1..Len(env) : env[i].name = env[j].name => i = j
              /\ env[1] = [name |-> "APP_NAME", value |-> ValueOf("app_name", <<>>)]
              /\ env[2] = [name |-> "GIT_REF", value |-> ValueOf("git_ref", <<"main">>)]
              /\ env[3] = [name |-> "ENVIRONMENT", value |-> ValueOf("environment", <<"prod">>)]
              /\ env[4] = [name |-> "ECR_REPOSITORY", value |-> ValueOf("ecr_repository", <<>>)]
              /\ env[5] = [name |-> "ECS_CLUSTER", value |-> ValueOf("ecs_cluster", <<>>)]
              /\ env[6] = [name |-> "ECS_SERVICE", value |-> ValueOf("ecs_service", <<>>)]
        /\ event["task_type"] # Lit("app_deployer") =>
              \A i \in 1..Len(overrides) : "command" \in DOMAIN overrides[i]

C10_Witness ==
    /\ pc = "return"
    /\ event["task_type"] = Lit("app_deployer")
    /\ event["app_name"] = Lit("foo")
    /\ event["git_ref"] = Lit("v1.2")
    /\ event["environment"] = Lit("staging")
    /\ event["ecr_repository"] = Str(<<"123.dkr", "/", "foo">>)
    /\ event["ecs_cluster"] = Lit("cluster-a")
    /\ event["ecs_service"] = Lit("service-a")
    /\ overrides[1].environment[5].value = Lit("cluster-a")
    /\ overrides[1].environment[6].value = Lit("service-a")

====
